---- MODULE Spec2Model ----
(***************************************************************************)
(* A model of AppComponent (src/src/app.component.ts): the giraffe Model   *)
(* life cycle (redrawGiraffe / removeGiraffe / ngOnDestroy), the export    *)
(* (downloadModel and the GLTFExporter callbacks), the resize handler, the *)
(* signal/effect wiring of the constructor, and the geometry computed by   *)
(* createGiraffe.                                                          *)
(*                                                                         *)
(* Numbers.  All lengths are integers in thousandths, so                   *)
(* 0.99 * headSize is (990 * headSize) \div Unit.  The parameter values    *)
(* the model draws are multiples of 100, for which every product and       *)
(* halving of createGiraffe is exact; the arithmetic is that of the reals, *)
(* floating-point rounding is not modelled.                                *)
(***************************************************************************)
EXTENDS Integers, Sequences, FiniteSets, TLC

VARIABLES
  sig,                \* the signals: giraffeName .. autoRotate, isViewInitialized
  canvasContainerRef, \* "undefined" | "defined"
  camera,             \* [defined, aspect |-> <<width, height>>]
  renderer,           \* [defined, size |-> <<w, h>>, disposed]
  controls,           \* [defined, autoRotate, target]
  scene,              \* [defined, lights, models]: the scene's children
  giraffe,            \* this.giraffe: null (0) or the identity of a Model
  heap,               \* the Model objects still referenced: id -> object
  animationFrameId,   \* this.animationFrameId: null (0) or the last request id
  rafPending,         \* a requestAnimationFrame callback is scheduled
  pending,            \* exports in flight: exporter.parse called, no callback yet
  files,              \* the files handed to the browser by save()
  console,            \* the console.error messages
  created,            \* number of Models createGiraffe has returned
  disposals,          \* number of Models removeGiraffe has disposed
  nExports,           \* number of exporter.parse calls
  destroyed,          \* ngOnDestroy has run
  nEvents,            \* number of handlers and callbacks that have run
  lastOp              \* the handler that ran last, with its inputs

vars == << sig, canvasContainerRef, camera, renderer, controls, scene, giraffe,
           heap, animationFrameId, rafPending, pending, files, console,
           created, disposals, nExports, destroyed, nEvents, lastOp >>

null == 0

\* ------------------------------------------------------------------ bounds
\* The number of handler and callback runs a behaviour holds.
MaxEvents == 5

\* ---------------------------------------------------------- createGiraffe
\* One unit of length is a thousand thousandths.
Unit == 10 * 10 * 10
bodyHeight == 3000
tailLength == 2000
tailAttachY == 1000
tailAttachZ == -2500
tasselSize == 400
neckRadiusBottom == 950
neckRadiusTop == 750
neckBaseZ == 1500
headCenterZ == 2000

\* x * y for two numbers in thousandths
Mul(x, y) == (x * y) \div Unit

BoxGeometry(part, w, h, d, x, y, z) ==
  [part |-> part, shape |-> "box", dims |-> <<w, h, d>>, pos |-> <<x, y, z>>,
   rotX |-> 0, rotY |-> 0]

CylinderGeometry(part, rTop, rBottom, height, x, y, z) ==
  [part |-> part, shape |-> "cylinder", dims |-> <<rTop, rBottom, height>>,
   pos |-> <<x, y, z>>, rotX |-> 0, rotY |-> 0]

SphereGeometry(part, radius) ==
  [part |-> part, shape |-> "sphere", dims |-> <<radius>>, pos |-> <<0, 0, 0>>,
   rotX |-> 0, rotY |-> 0]

\* Math.random() is in [0, 1): the samples the model draws, in thousandths.
RandomSamples == <<0, 500, 999>>

\* The k-th Math.random() of one createGiraffe call on tape t.  Tape 0 draws
\* the least value every time, tape 1 the greatest, the others mix the three.
Random(t, k) ==
  CASE t = 0 -> RandomSamples[1]
    [] t = 1 -> RandomSamples[3]
    [] OTHER -> RandomSamples[((t + k * (t - 1)) % 3) + 1]

legPositions == << <<1200, 2000>>, <<-1200, 2000>>, <<1200, -2000>>, <<-1200, -2000>> >>

legs(legLength) ==
  LET legY == -(bodyHeight \div 2) - (legLength \div 2)
  IN  [i \in 1..4 |->
        CylinderGeometry("leg", 400, 300, legLength,
                         legPositions[i][1], legY, legPositions[i][2])]

\* cos(PI/4) = sin(PI/4), in thousandths
cosTailAngle == 707

\* The tail cylinder: its top end is at the attachment point, and it is
\* turned by 45 degrees about the x axis there.
tail ==
  [CylinderGeometry("tail", 100, 80, tailLength, 0, tailAttachY, tailAttachZ)
     EXCEPT !.rotX = 45]

\* The tassel, at the end of the tail.
tassel ==
  BoxGeometry("tassel", tasselSize, tasselSize, tasselSize, 0,
              tailAttachY - Mul(tailLength, cosTailAngle),
              tailAttachZ - Mul(tailLength, cosTailAngle))

bodySpotsZ == << <<1000, 1000, 2500>>, <<-1200, 500, 2500>>, <<500, -1000, 2500>>,
                 <<1000, 1000, -2500>>, <<-1200, 500, -2500>>, <<500, -1000, -2500>> >>

bodySpotsX == << <<1500, 1000, 1800>>, <<1500, -500, 0>>, <<1500, 800, -1500>>,
                 <<-1500, 1000, 1800>>, <<-1500, -500, 0>>, <<-1500, 800, -1500>> >>

\* p, the angle in degrees, sin(angle) and cos(angle) in thousandths
neckSpots == << <<200, 36, 588, 809>>, <<450, -60, -866, 500>>,
                <<700, 120, 866, -500>>, <<900, 180, 0, -1000>> >>

\* bodySpotDim with a spread of 0.5
bodySpotDim_wide(r) == 500 + Mul(r, 500)

\* 0.5 + Math.random() * 0.4
bodySpotDim(r) == 500 + Mul(r, 400)

\* 0.4 + Math.random() * 0.3
neckSpotDim(r) == 400 + Mul(r, 300)

spotsZ(t) ==
  [i \in 1..6 |->
    BoxGeometry("bodySpot", bodySpotDim(Random(t, 2 * i - 1)),
                bodySpotDim(Random(t, 2 * i)), 100,
                bodySpotsZ[i][1], bodySpotsZ[i][2], bodySpotsZ[i][3])]

spotsX(t) ==
  [i \in 1..6 |->
    BoxGeometry("bodySpot", 100, bodySpotDim(Random(t, 12 + 2 * i - 1)),
                bodySpotDim(Random(t, 12 + 2 * i)),
                bodySpotsX[i][1], bodySpotsX[i][2], bodySpotsX[i][3])]

spotsNeck(neckLength, t) ==
  [i \in 1..4 |->
    LET p == neckSpots[i][1]
        y == (bodyHeight \div 2) + Mul(p, neckLength)
        radius == neckRadiusBottom - Mul(p, neckRadiusBottom - neckRadiusTop)
    IN  [BoxGeometry("neckSpot", neckSpotDim(Random(t, 24 + 2 * i - 1)),
                     neckSpotDim(Random(t, 24 + 2 * i)), 100,
                     Mul(radius, neckSpots[i][3]), y,
                     neckBaseZ + Mul(radius, neckSpots[i][4]))
           EXCEPT !.rotY = neckSpots[i][2]]]

\* hornHeight taking the head size into account
hornHeight_scaled(hornLength, headSize) == Mul(hornLength, headSize)

\* The height of the horn cylinder.
hornHeight(hornLength, headSize) == hornLength

\* rootLift by the whole body height
rootLift_noHalf(legLength) == legLength + bodyHeight

\* giraffe.position.y
rootLift(legLength) == legLength + (bodyHeight \div 2)

createGiraffe(neckLength, legLength, hornLength, headSize, color, spotColorValue, t) ==
  LET bodyGeo == BoxGeometry("body", 3000, bodyHeight, 5000, 0, 0, 0)
      bodyTopY == bodyHeight \div 2
      neckGeo == CylinderGeometry("neck", neckRadiusTop, neckRadiusBottom, neckLength,
                                  0, bodyTopY + (neckLength \div 2), neckBaseZ)
      neckTopY == bodyTopY + neckLength
      headW == 2 * headSize
      headH == 2 * headSize
      headD == Mul(2500, headSize)
      headCenterY == neckTopY + (headH \div 2)
      headGeo == BoxGeometry("head", headW, headH, headD, 0, headCenterY, headCenterZ)
      snoutGeo == BoxGeometry("snout", Mul(1500, headSize), Mul(990, headSize),
                              Mul(1500, headSize), 0,
                              headCenterY - Mul(500, headSize),
                              headCenterZ + (headD \div 2))
      hornRadius == Mul(200, headSize)
      hornH == hornHeight(hornLength, headSize)
      headTopY == headCenterY + (headH \div 2)
      hornY == headTopY + (hornH \div 2)
      hornX == Mul(700, headSize)
      hornZ == headCenterZ - Mul(500, headSize)
      horn1Geo == CylinderGeometry("horn", hornRadius, hornRadius, hornH, hornX, hornY, hornZ)
      horn2Geo == CylinderGeometry("horn", hornRadius, hornRadius, hornH, -hornX, hornY, hornZ)
      earW == Mul(800, headSize)
      earX == (headW \div 2) + (earW \div 2)
      earY == headCenterY + Mul(500, headSize)
      ear1Geo == BoxGeometry("ear", earW, Mul(600, headSize), Mul(200, headSize),
                             earX, earY, headCenterZ)
      ear2Geo == BoxGeometry("ear", earW, Mul(600, headSize), Mul(200, headSize),
                             -earX, earY, headCenterZ)
      eyeRadius == Mul(200, headSize)
      eyeX == Mul(700, headSize)
      eyeY == headCenterY + Mul(300, headSize)
      eyeZ == headCenterZ + (headD \div 2) - (eyeRadius \div 2)
      giraffeGeometries == <<bodyGeo>> \o legs(legLength) \o <<tail, neckGeo, headGeo,
                                                               ear1Geo, ear2Geo>>
      spotGeometries == <<tassel, snoutGeo, horn1Geo, horn2Geo>> \o spotsZ(t)
                          \o spotsX(t) \o spotsNeck(neckLength, t)
      eye1 == [name |-> "eye1", geometry |-> "eyeGeo", material |-> "eyeMaterial",
               position |-> <<eyeX, eyeY, eyeZ>>]
      eye2 == [eye1 EXCEPT !.name = "eye2", !.position[1] = -eyeX]
      giraffeMesh == [name |-> "giraffeMesh", geometry |-> "mergedGiraffeGeo",
                      material |-> "giraffeMaterial", position |-> <<0, 0, 0>>]
      spotMesh == [name |-> "spotMesh", geometry |-> "mergedSpotGeo",
                   material |-> "spotMaterial", position |-> <<0, 0, 0>>]
  IN  [children |->
         <<eye1, eye2>>
           \o (IF Len(giraffeGeometries) > 0 THEN <<giraffeMesh>> ELSE << >>)
           \o (IF Len(spotGeometries) > 0 THEN <<spotMesh>> ELSE << >>),
       geometries |->
         [eyeGeo |-> <<SphereGeometry("eye", eyeRadius)>>,
          mergedGiraffeGeo |-> giraffeGeometries,
          mergedSpotGeo |-> spotGeometries],
       materials |->
         [giraffeMaterial |-> color, spotMaterial |-> spotColorValue,
          eyeMaterial |-> "#000000"],
       positionY |-> rootLift(legLength)]


\* One more handler or callback runs.
Tick ==
  /\ nEvents < MaxEvents
  /\ nEvents' = nEvents + 1

\* ------------------------------------------------------- signals, effects
\* The state after construction (lines 37-50).
Init ==
  /\ sig = [giraffeName |-> "Gigi", neckLength |-> 6000, legLength |-> 4000,
            hornLength |-> 800, headSize |-> 1000, giraffeColor |-> "#FFC300",
            spotColor |-> "#8B4513", autoRotate |-> FALSE,
            isViewInitialized |-> FALSE]
  /\ canvasContainerRef = "undefined"
  /\ camera = [defined |-> FALSE, aspect |-> <<0, 0>>]
  /\ renderer = [defined |-> FALSE, size |-> <<0, 0>>, disposed |-> FALSE]
  /\ controls = [defined |-> FALSE, autoRotate |-> FALSE, target |-> null]
  /\ scene = [defined |-> FALSE, lights |-> {}, models |-> {}]
  /\ giraffe = null
  /\ heap = << >>
  /\ animationFrameId = null
  /\ rafPending = FALSE
  /\ pending = {}
  /\ files = << >>
  /\ console = << >>
  /\ created = 0
  /\ disposals = 0
  /\ nExports = 0
  /\ destroyed = FALSE
  /\ nEvents = 0
  /\ lastOp = [op |-> "constructor", x |-> 0, y |-> 0]

\* The signals the first effect reads when it runs in signal state s: always
\* isViewInitialized, and through redrawGiraffe the six it passes to
\* createGiraffe.  An effect runs again when a signal it read changes.
\* redrawEffectReads with giraffeName read as well
redrawEffectReads_name(s) ==
  IF s.isViewInitialized
    THEN {"isViewInitialized", "giraffeName", "neckLength", "legLength", "hornLength",
          "headSize", "giraffeColor", "spotColor"}
    ELSE {"isViewInitialized"}

redrawEffectReads(s) ==
  IF s.isViewInitialized
    THEN {"isViewInitialized", "neckLength", "legLength", "hornLength", "headSize",
          "giraffeColor", "spotColor"}
    ELSE {"isViewInitialized"}

\* The signals the second effect reads.
autoRotateEffectReads(s) ==
  IF s.isViewInitialized THEN {"isViewInitialized", "autoRotate"}
                         ELSE {"isViewInitialized"}

\* ------------------------------------------------------------- life cycle
\* The part of the component redrawGiraffe and removeGiraffe work on.
World ==
  [giraffe |-> giraffe, scene |-> scene, heap |-> heap, controls |-> controls,
   created |-> created, disposals |-> disposals]

\* What traverse() disposes: the geometry and the material of every Mesh.
traverse(group) ==
  UNION {{group.children[i].geometry, group.children[i].material} :
           i \in DOMAIN group.children}

\* removeGiraffe disposing the geometries only
removeGiraffe_keepMaterials(w) ==
  IF w.giraffe # null
    THEN [w EXCEPT
           !.scene.models = @ \ {w.giraffe},
           !.heap[w.giraffe].parent = "null",
           !.heap[w.giraffe].disposed =
               @ \cup {w.heap[w.giraffe].group.children[i].geometry :
                         i \in DOMAIN w.heap[w.giraffe].group.children},
           !.giraffe = null,
           !.disposals = @ + 1]
    ELSE w

\* removeGiraffe on World w.
removeGiraffe(w) ==
  IF w.giraffe # null
    THEN [w EXCEPT
           !.scene.models = @ \ {w.giraffe},
           !.heap[w.giraffe].parent = "null",
           !.heap[w.giraffe].disposed = @ \cup traverse(w.heap[w.giraffe].group),
           !.giraffe = null,
           !.disposals = @ + 1]
    ELSE w

\* f extended by id |-> obj
Extend(f, id, obj) ==
  [k \in (DOMAIN f) \cup {id} |-> IF k = id THEN obj ELSE f[k]]

\* redrawGiraffe without its call of removeGiraffe
redrawGiraffe_noRemove(w, s, t) ==
  LET id == w.created + 1
      g  == createGiraffe(s.neckLength, s.legLength, s.hornLength, s.headSize,
                          s.giraffeColor, s.spotColor, t)
  IN  [w EXCEPT
         !.giraffe = id,
         !.heap = Extend(@, id, [group |-> g, parent |-> "scene", disposed |-> {}]),
         !.scene.models = @ \cup {id},
         !.created = id,
         !.controls.target = id]

\* redrawGiraffe in signal state s, Math.random() drawing from tape t.  The
\* controls' target is the centre of the new Model's bounding box, recorded
\* as the Model it is the centre of.
redrawGiraffe(w, s, t) ==
  LET w1 == removeGiraffe(w)
      id == w1.created + 1
      g  == createGiraffe(s.neckLength, s.legLength, s.hornLength, s.headSize,
                          s.giraffeColor, s.spotColor, t)
  IN  [w1 EXCEPT
         !.giraffe = id,
         !.heap = Extend(@, id, [group |-> g, parent |-> "scene", disposed |-> {}]),
         !.scene.models = @ \cup {id},
         !.created = id,
         !.controls.target = id]

\* The objects the program can still reach: this.giraffe and the Models the
\* exports in flight hold.  The others are garbage.
Reachable(h, g, p) ==
  [k \in {i \in DOMAIN h : i = g \/ \E e \in p : e.model = i} |-> h[k]]

\* The component's fields take the World w.
Becomes(w) ==
  /\ giraffe' = w.giraffe
  /\ scene' = w.scene
  /\ heap' = Reachable(w.heap, w.giraffe, pending')
  /\ controls' = w.controls
  /\ created' = w.created
  /\ disposals' = w.disposals

\* The effects that run after signal `name` changed from state s to s2: each
\* effect that read `name` in its last run runs again, the first one first.
flushEffects(name, s, s2, t) ==
  LET w1 == IF name \in redrawEffectReads(s) /\ s2.isViewInitialized
              THEN redrawGiraffe(World, s2, t) ELSE World
      w2 == IF name \in autoRotateEffectReads(s) /\ s2.isViewInitialized
              THEN [w1 EXCEPT !.controls.autoRotate = s2.autoRotate] ELSE w1
  IN  w2

\* signal.set(v) of a handler and the effects it makes run.  A set to the
\* value the signal already has notifies nobody.
set(op, name, v, t) ==
  /\ Tick
  /\ ~destroyed
  /\ sig' = [sig EXCEPT ![name] = v]
  /\ pending' = pending
  /\ \E w \in {IF sig[name] # v THEN flushEffects(name, sig, sig', t) ELSE World} :
       Becomes(w)
  /\ lastOp' = [op |-> op, x |-> sig[name], y |-> v]
  /\ UNCHANGED << canvasContainerRef, camera, renderer, animationFrameId, rafPending,
                  files, console, nExports, destroyed >>

onGiraffeNameChange(v, t) == set("onGiraffeNameChange", "giraffeName", v, t)

onNeckLengthChange(v, t) == set("onNeckLengthChange", "neckLength", v, t)

onLegLengthChange(v, t) == set("onLegLengthChange", "legLength", v, t)

onHornLengthChange(v, t) == set("onHornLengthChange", "hornLength", v, t)

onHeadSizeChange(v, t) == set("onHeadSizeChange", "headSize", v, t)

onGiraffeColorChange(v, t) == set("onGiraffeColorChange", "giraffeColor", v, t)

onSpotColorChange(v, t) == set("onSpotColorChange", "spotColor", v, t)

onAutoRotateChange(v, t) == set("onAutoRotateChange", "autoRotate", v, t)

\* ngAfterViewInit with the view queries resolved (the template declares
\* #canvas and #canvasContainer), the container being width x height:
\* initThreeJs, isViewInitialized.set(true), animate(), and the two effects,
\* which both read isViewInitialized.
ngAfterViewInit(width, height, t) ==
  /\ Tick
  /\ ~destroyed
  /\ ~sig.isViewInitialized
  /\ canvasContainerRef' = "defined"
  /\ camera' = [defined |-> TRUE, aspect |-> <<width, height>>]
  /\ renderer' = [defined |-> TRUE, size |-> <<width, height>>, disposed |-> FALSE]
  /\ sig' = [sig EXCEPT !.isViewInitialized = TRUE]
  /\ animationFrameId' = 1
  /\ rafPending' = TRUE
  /\ pending' = pending
  /\ \E w0 \in {[World EXCEPT
                    !.scene = [defined |-> TRUE, models |-> {},
                               lights |-> {"ambientLight", "directionalLight"}],
                    !.controls = [defined |-> TRUE, autoRotate |-> FALSE,
                                  target |-> null]]} :
       \E w1 \in {redrawGiraffe(w0, sig', t)} :
         Becomes([w1 EXCEPT !.controls.autoRotate = sig'.autoRotate])
  /\ lastOp' = [op |-> "ngAfterViewInit", x |-> width, y |-> height]
  /\ UNCHANGED << files, console, nExports, destroyed >>

\* One frame of the render loop: request the next frame, update the controls,
\* render.
animate ==
  /\ Tick
  /\ rafPending
  /\ animationFrameId' = animationFrameId + 1
  /\ lastOp' = [op |-> "animate", x |-> 0, y |-> 0]
  /\ UNCHANGED << sig, canvasContainerRef, camera, renderer, controls, scene, giraffe,
                  heap, rafPending, pending, files, console, created, disposals,
                  nExports, destroyed >>

\* ngOnDestroy: cancel the frame request, dispose the renderer, remove the
\* Model if there is one.
ngOnDestroy ==
  /\ Tick
  /\ ~destroyed
  /\ destroyed' = TRUE
  /\ rafPending' = IF animationFrameId # null THEN FALSE ELSE rafPending
  /\ renderer' = IF renderer.defined THEN [renderer EXCEPT !.disposed = TRUE]
                                            ELSE renderer
  /\ pending' = pending
  /\ \E w \in {IF giraffe # null THEN removeGiraffe(World) ELSE World} : Becomes(w)
  /\ lastOp' = [op |-> "ngOnDestroy", x |-> giraffe, y |-> 0]
  /\ UNCHANGED << sig, canvasContainerRef, camera, animationFrameId, files, console,
                  nExports >>

\* ------------------------------------------------------------------ export
\* downloadModel without the check for a Model
downloadModel_noGuard ==
  /\ Tick
  /\ ~destroyed
  /\ nExports' = nExports + 1
  /\ pending' = pending \cup {[id |-> nExports + 1, model |-> giraffe]}
  /\ console' = console
  /\ lastOp' = [op |-> "downloadModel", x |-> giraffe, y |-> 0]
  /\ UNCHANGED << sig, canvasContainerRef, camera, renderer, controls, scene, giraffe,
                  heap, animationFrameId, rafPending, files, created, disposals,
                  destroyed >>

\* downloadModel: the no-model error, or exporter.parse on this.giraffe.
downloadModel ==
  /\ Tick
  /\ ~destroyed
  /\ IF giraffe = null
       THEN /\ console' = Append(console, "No giraffe model to download.")
            /\ UNCHANGED << pending, nExports >>
       ELSE /\ nExports' = nExports + 1
            /\ pending' = pending \cup {[id |-> nExports + 1, model |-> giraffe]}
            /\ console' = console
  /\ lastOp' = [op |-> "downloadModel", x |-> giraffe, y |-> 0]
  /\ UNCHANGED << sig, canvasContainerRef, camera, renderer, controls, scene, giraffe,
                  heap, animationFrameId, rafPending, files, created, disposals,
                  destroyed >>

\* save(): the blob of the given type is downloaded under the given name.
\* The file is the serialization of the Model the export was started with.
save(type, filename, model) ==
  Append(files, [filename |-> filename, type |-> type, model |-> model])

\* onDone saving the Model that is current when the export completes
onDone_current(e, binary) ==
  /\ Tick
  /\ e \in pending
  /\ pending' = pending \ {e}
  /\ files' = IF binary
                THEN save("application/octet-stream", "my-plush-giraffe.glb", giraffe)
                ELSE save("text/plain", "my-plush-giraffe.gltf", giraffe)
  /\ heap' = Reachable(heap, giraffe, pending')
  /\ lastOp' = [op |-> "onDone", x |-> e.id, y |-> e.model]
  /\ UNCHANGED << sig, canvasContainerRef, camera, renderer, controls, scene, giraffe,
                  animationFrameId, rafPending, console, created, disposals, nExports,
                  destroyed >>

\* The exporter's completion callback for export e; binary says whether the
\* result is an ArrayBuffer.
onDone(e, binary) ==
  /\ Tick
  /\ e \in pending
  /\ pending' = pending \ {e}
  /\ files' = IF binary
                THEN save("application/octet-stream", "my-plush-giraffe.glb", e.model)
                ELSE save("text/plain", "my-plush-giraffe.gltf", e.model)
  /\ heap' = Reachable(heap, giraffe, pending')
  /\ lastOp' = [op |-> "onDone", x |-> e.id, y |-> e.model]
  /\ UNCHANGED << sig, canvasContainerRef, camera, renderer, controls, scene, giraffe,
                  animationFrameId, rafPending, console, created, disposals, nExports,
                  destroyed >>

\* onError leaving the export in flight
onError_retry(e) ==
  /\ Tick
  /\ e \in pending
  /\ pending' = pending
  /\ console' = Append(console, "An error happened during parsing")
  /\ heap' = Reachable(heap, giraffe, pending')
  /\ lastOp' = [op |-> "onError", x |-> e.id, y |-> e.model]
  /\ UNCHANGED << sig, canvasContainerRef, camera, renderer, controls, scene, giraffe,
                  animationFrameId, rafPending, files, created, disposals, nExports,
                  destroyed >>

\* The exporter's failure callback for export e.
onError(e) ==
  /\ Tick
  /\ e \in pending
  /\ pending' = pending \ {e}
  /\ console' = Append(console, "An error happened during parsing")
  /\ heap' = Reachable(heap, giraffe, pending')
  /\ lastOp' = [op |-> "onError", x |-> e.id, y |-> e.model]
  /\ UNCHANGED << sig, canvasContainerRef, camera, renderer, controls, scene, giraffe,
                  animationFrameId, rafPending, files, created, disposals, nExports,
                  destroyed >>

\* ------------------------------------------------------------------ resize
\* onResize without the check for a width or height of 0
onResize_noZeroGuard(width, height) ==
  /\ Tick
  /\ ~destroyed
  /\ IF canvasContainerRef = "undefined" \/ ~camera.defined \/ ~renderer.defined
       THEN /\ UNCHANGED << camera, renderer >>
            /\ lastOp' = [op |-> "onResize", x |-> -1, y |-> -1]
       ELSE /\ camera' = [camera EXCEPT !.aspect = <<width, height>>]
            /\ renderer' = [renderer EXCEPT !.size = <<width, height>>]
            /\ lastOp' = [op |-> "onResize", x |-> width, y |-> height]
  /\ UNCHANGED << sig, canvasContainerRef, controls, scene, giraffe, heap,
                  animationFrameId, rafPending, pending, files, console, created,
                  disposals, nExports, destroyed >>

\* onResize, the container being width x height where the handler gets to
\* read it.  camera.aspect is the quotient width / height, kept as the pair.
onResize(width, height) ==
  /\ Tick
  /\ ~destroyed
  /\ IF canvasContainerRef = "undefined" \/ ~camera.defined \/ ~renderer.defined
       THEN /\ UNCHANGED << camera, renderer >>
            /\ lastOp' = [op |-> "onResize", x |-> -1, y |-> -1]
       ELSE IF width = 0 \/ height = 0
         THEN /\ UNCHANGED << camera, renderer >>
              /\ lastOp' = [op |-> "onResize", x |-> width, y |-> height]
         ELSE /\ camera' = [camera EXCEPT !.aspect = <<width, height>>]
              /\ renderer' = [renderer EXCEPT !.size = <<width, height>>]
              /\ lastOp' = [op |-> "onResize", x |-> width, y |-> height]
  /\ UNCHANGED << sig, canvasContainerRef, controls, scene, giraffe, heap,
                  animationFrameId, rafPending, pending, files, console, created,
                  disposals, nExports, destroyed >>

\* ---------------------------------------------------------- specifications
\* The values the events of Spec carry.
GiraffeNames == {"Zuri"}
NeckLengths == {8000}
LegLengths == {2000}
HornLengths == {1600}
HeadSizes == {2000}
GiraffeColors == {"#FFFFFF"}
SpotColors == {"#000000"}
InitSizes == {<<800, 600>>}
Sizes == {<<0, 300>>, <<400, 0>>, <<400, 300>>}
Tapes == {2}

Next ==
  \/ \E c \in InitSizes, t \in Tapes : ngAfterViewInit(c[1], c[2], t)
  \/ \E v \in GiraffeNames, t \in Tapes : onGiraffeNameChange(v, t)
  \/ \E v \in NeckLengths, t \in Tapes : onNeckLengthChange(v, t)
  \/ \E v \in LegLengths, t \in Tapes : onLegLengthChange(v, t)
  \/ \E v \in HornLengths, t \in Tapes : onHornLengthChange(v, t)
  \/ \E v \in HeadSizes, t \in Tapes : onHeadSizeChange(v, t)
  \/ \E v \in GiraffeColors, t \in Tapes : onGiraffeColorChange(v, t)
  \/ \E v \in SpotColors, t \in Tapes : onSpotColorChange(v, t)
  \/ \E v \in BOOLEAN, t \in Tapes : onAutoRotateChange(v, t)
  \/ animate
  \/ ngOnDestroy
  \/ downloadModel
  \/ \E e \in pending, binary \in BOOLEAN : onDone(e, binary)
  \/ \E e \in pending : onError(e)
  \/ \E c \in Sizes : onResize(c[1], c[2])

Spec == Init /\ [][Next]_vars

\* The geometry specification: the view is initialized and the four numeric
\* parameters change, over more values and more outcomes of Math.random().
GeomNeckLengths == {4000, 8000}
GeomLegLengths == {2000, 4000, 6000}
GeomHornLengths == {400, 1600}
GeomHeadSizes == {500, 1000, 1500}
GeomTapes == {0, 1, 2}

NextGeom ==
  \/ \E c \in InitSizes, t \in GeomTapes : ngAfterViewInit(c[1], c[2], t)
  \/ \E v \in GeomNeckLengths, t \in GeomTapes : onNeckLengthChange(v, t)
  \/ \E v \in GeomLegLengths, t \in GeomTapes : onLegLengthChange(v, t)
  \/ \E v \in GeomHornLengths, t \in GeomTapes : onHornLengthChange(v, t)
  \/ \E v \in GeomHeadSizes, t \in GeomTapes : onHeadSizeChange(v, t)

SpecGeom == Init /\ [][NextGeom]_vars

\* ------------------------------------------------------------------ claims
\* The step just taken is a run of handler op.
Ran(op) == nEvents' = nEvents + 1 /\ lastOp'.op = op

\* The geometries and materials a Model owns.
Resources(group) == (DOMAIN group.geometries) \cup (DOMAIN group.materials)

Released(obj) == obj.parent = "null" /\ obj.disposed = Resources(obj.group)

\* C1: at most one Model is live.  The scene holds at most one Model, which is
\* this.giraffe; every other Model still referenced is detached with all its
\* geometries and materials disposed; and the Models disposed so far are all
\* the Models created but the live one, so that at each creation the
\* disposals equal the prior creations.
C1_AtMostOneLive ==
  /\ Cardinality(scene.models) <= 1
  /\ scene.models = (IF giraffe = null THEN {} ELSE {giraffe})
  /\ \A id \in DOMAIN heap :
        IF id = giraffe THEN heap[id].disposed = {} /\ heap[id].parent = "scene"
                        ELSE Released(heap[id])
  /\ disposals = (IF giraffe = null THEN created ELSE created - 1)

C1_Witness == created >= 2 /\ giraffe = created /\ disposals = created - 1

\* C2 as claimed: a regenerate leaves every Model an export in flight holds
\* as it was (not detached, not disposed, not changed).
C2_Original ==
  [][(created' = created + 1) =>
       \A e \in pending : e \in pending' /\ heap'[e.model] = heap[e.model]]_vars

\* C2 as amended: a regenerate cancels no export in flight and leaves the
\* geometry of the Model each one holds as it was, but the Model that was
\* live is detached from the scene and all its geometries and materials are
\* disposed; and an export that completes saves the Model it was started with.
C2_Amended ==
  [][/\ (created' = created + 1) =>
          \A e \in pending :
            /\ e \in pending'
            /\ heap'[e.model].group = heap[e.model].group
            /\ e.model = giraffe => Released(heap'[e.model])
            /\ e.model # giraffe => heap'[e.model] = heap[e.model]
     /\ Ran("onDone") =>
          \E e \in pending :
            /\ pending' = pending \ {e}
            /\ e.model \in DOMAIN heap
            /\ Len(files') = Len(files) + 1
            /\ files'[Len(files')].model = e.model]_vars

C2_Witness ==
  /\ lastOp.op = "onDone"
  /\ giraffe # null
  /\ lastOp.y # giraffe
  /\ files # << >>
  /\ files[Len(files)].model = lastOp.y

\* C3: downloadModel with no Model logs the no-model error and does nothing
\* else: no export starts, no file is saved, and there is still no Model.
C3_NoModelExport ==
  [][(Ran("downloadModel") /\ giraffe = null) =>
       /\ console' = Append(console, "No giraffe model to download.")
       /\ pending' = pending
       /\ nExports' = nExports
       /\ files' = files
       /\ giraffe' = null
       /\ heap' = heap
       /\ scene' = scene]_vars

C3_Witness ==
  /\ lastOp.op = "downloadModel"
  /\ lastOp.x = null
  /\ console # << >>
  /\ console[Len(console)] = "No giraffe model to download."
  /\ pending = {}
  /\ files = << >>

\* C4: removeGiraffe on an Active Model takes it out of the scene, disposes
\* all its geometries and materials and leaves no Model; on no Model it
\* changes nothing; applied twice it gives what it gives applied once.  A
\* run of ngOnDestroy leaves what removeGiraffe gives.
C4_Teardown ==
  [][/\ \E r \in {removeGiraffe(World)} :
          /\ r.giraffe = null
          /\ removeGiraffe(r) = r
          /\ giraffe = null => r = World
          /\ giraffe # null =>
               /\ giraffe \notin r.scene.models
               /\ Released(r.heap[giraffe])
               /\ r.disposals = disposals + 1
          /\ Ran("ngOnDestroy") =>
               /\ giraffe' = null
               /\ scene' = r.scene
               /\ heap' = Reachable(r.heap, null, pending)
               /\ disposals' = r.disposals
               /\ created' = created]_vars

C4_Witness ==
  /\ lastOp.op = "ngOnDestroy"
  /\ lastOp.x # null
  /\ giraffe = null
  /\ scene.models = {}
  /\ disposals = created

\* C5: a failed serialization is reported by one run of the failure callback,
\* which logs it; the export is over (not retried), no file is saved, and
\* neither the request of the export nor its failure changes the Model, the
\* scene, the controls or the render loop.
C5_SerializationError ==
  [][(Ran("onError") \/ (Ran("downloadModel") /\ giraffe # null)) =>
       /\ Ran("onError") =>
            /\ console' = Append(console, "An error happened during parsing")
            /\ \E e \in pending : pending' = pending \ {e}
            /\ nExports' = nExports
       /\ Ran("downloadModel") =>
            /\ console' = console
            /\ pending' = pending \cup {[id |-> nExports', model |-> giraffe]}
            /\ nExports' = nExports + 1
       /\ files' = files
       /\ giraffe' = giraffe
       /\ scene' = scene
       /\ controls' = controls
       /\ \A id \in DOMAIN heap' : heap'[id] = heap[id]
       /\ giraffe # null => giraffe \in DOMAIN heap'
       /\ animationFrameId' = animationFrameId
       /\ rafPending' = rafPending]_vars

C5_Witness ==
  /\ lastOp.op = "onError"
  /\ giraffe # null
  /\ console = <<"An error happened during parsing">>
  /\ files = << >>
  /\ pending = {}

\* C6: a resize that reads a container of width 0 or height 0 changes
\* nothing; one that reads a width and a height that are not 0 makes the
\* aspect ratio width / height and the render surface width x height.
C6_Resize ==
  [][(Ran("onResize") /\ lastOp'.x # -1) =>
       IF lastOp'.x = 0 \/ lastOp'.y = 0
         THEN /\ camera' = camera
              /\ renderer' = renderer
              /\ giraffe' = giraffe
              /\ heap' = heap
              /\ scene' = scene
              /\ console' = console
         ELSE /\ camera'.aspect = <<lastOp'.x, lastOp'.y>>
              /\ renderer'.size = <<lastOp'.x, lastOp'.y>>
              /\ giraffe' = giraffe
              /\ heap' = heap]_vars

C6_Witness ==
  /\ lastOp.op = "onResize"
  /\ lastOp.x = 0
  /\ camera.aspect = <<400, 300>>
  /\ renderer.size = <<400, 300>>

\* The primitives of a Model that are placed relative to the head's centre.
HeadParts(group) ==
  << group.geometries.mergedGiraffeGeo[8], group.geometries.mergedGiraffeGeo[9],
     group.geometries.mergedGiraffeGeo[10], group.geometries.mergedSpotGeo[2],
     group.geometries.mergedSpotGeo[3], group.geometries.mergedSpotGeo[4],
     [group.geometries.eyeGeo[1] EXCEPT !.pos = group.children[1].position],
     [group.geometries.eyeGeo[1] EXCEPT !.pos = group.children[2].position] >>

HeadCentre(group) == group.geometries.mergedGiraffeGeo[8].pos

\* b = a * h2 / h1
Scaled(a, b, h1, h2) == b * h1 = a * h2

\* Primitive p2 of a Model of head size h2 is primitive p1 of a Model of head
\* size h1 with its dimensions and its offset from the head's centre
\* multiplied by h2 / h1.
ScaledPart(p1, c1, p2, c2, h1, h2) ==
  /\ \A k \in DOMAIN p1.dims : Scaled(p1.dims[k], p2.dims[k], h1, h2)
  /\ \A k \in 1..3 : Scaled(p1.pos[k] - c1[k], p2.pos[k] - c2[k], h1, h2)

\* The same for a horn, but for its length, which stays hornLength: it is the
\* height of the horn's base above the head's centre that is multiplied.
ScaledHorn(p1, c1, p2, c2, h1, h2, hornLength) ==
  /\ \A k \in 1..2 : Scaled(p1.dims[k], p2.dims[k], h1, h2)
  /\ p1.dims[3] = hornLength /\ p2.dims[3] = hornLength
  /\ \A k \in {1, 3} : Scaled(p1.pos[k] - c1[k], p2.pos[k] - c2[k], h1, h2)
  /\ Scaled(p1.pos[2] - c1[2] - (hornLength \div 2),
            p2.pos[2] - c2[2] - (hornLength \div 2), h1, h2)

\* Body, legs, tail, neck and tassel of the two Models are the same.
SameBody(g1, g2) ==
  /\ \A i \in 1..7 : g2.geometries.mergedGiraffeGeo[i] = g1.geometries.mergedGiraffeGeo[i]
  /\ g2.geometries.mergedSpotGeo[1] = g1.geometries.mergedSpotGeo[1]

\* The step is a change of headSize to a greater value that regenerates.
HeadGrows ==
  /\ Ran("onHeadSizeChange")
  /\ giraffe # null
  /\ created' = created + 1
  /\ sig.headSize < sig'.headSize

\* C7 as claimed: every dimension and offset of every head part is multiplied
\* by h2 / h1, the horns included.
C7_Original ==
  [][HeadGrows =>
       LET g1 == heap[giraffe].group
           g2 == heap'[giraffe'].group
       IN  /\ \A i \in 1..8 :
                ScaledPart(HeadParts(g1)[i], HeadCentre(g1), HeadParts(g2)[i],
                           HeadCentre(g2), sig.headSize, sig'.headSize)
           /\ SameBody(g1, g2)]_vars

\* C7 as amended: that holds of head, ears, snout and eyes, and of the horns'
\* radius, sideways and forward offsets and base height; the horns' length is
\* hornLength before and after.
C7_Amended ==
  [][HeadGrows =>
       LET g1 == heap[giraffe].group
           g2 == heap'[giraffe'].group
       IN  /\ \A i \in {1, 2, 3, 4, 7, 8} :
                ScaledPart(HeadParts(g1)[i], HeadCentre(g1), HeadParts(g2)[i],
                           HeadCentre(g2), sig.headSize, sig'.headSize)
           /\ \A i \in {5, 6} :
                ScaledHorn(HeadParts(g1)[i], HeadCentre(g1), HeadParts(g2)[i],
                           HeadCentre(g2), sig.headSize, sig'.headSize,
                           sig.hornLength)
           /\ SameBody(g1, g2)]_vars

C7_Witness ==
  /\ lastOp.op = "onHeadSizeChange"
  /\ lastOp.x < lastOp.y
  /\ sig.isViewInitialized
  /\ created >= 2
  /\ giraffe = created
  /\ heap[giraffe].group.geometries.mergedSpotGeo[3].part = "horn"

\* C8: every Model has 10 structural and 20 pattern primitives whatever the
\* parameters and the random outcomes, the two drawn dimensions of every body
\* spot are in [0.5, 0.9] and those of every neck spot in [0.4, 0.7].
C8_CountsAndRanges ==
  \A id \in DOMAIN heap :
    LET structural == heap[id].group.geometries.mergedGiraffeGeo
        pattern == heap[id].group.geometries.mergedSpotGeo
    IN  /\ Len(structural) = 10
        /\ Len(pattern) = 20
        /\ Len(heap[id].group.children) = 4
        /\ \A i \in 5..10 : /\ pattern[i].part = "bodySpot"
                            /\ pattern[i].dims[1] \in 500..900
                            /\ pattern[i].dims[2] \in 500..900
        /\ \A i \in 11..16 : /\ pattern[i].part = "bodySpot"
                             /\ pattern[i].dims[2] \in 500..900
                             /\ pattern[i].dims[3] \in 500..900
        /\ \A i \in 17..20 : /\ pattern[i].part = "neckSpot"
                             /\ pattern[i].dims[1] \in 400..700
                             /\ pattern[i].dims[2] \in 400..700

C8_Witness ==
  /\ giraffe # null
  /\ sig.neckLength # 6000 /\ sig.legLength # 4000
  /\ sig.hornLength # 800 /\ sig.headSize # 1000
  /\ LET pattern == heap[giraffe].group.geometries.mergedSpotGeo
     IN  /\ Len(pattern) = 20
         /\ pattern[5].dims[1] > 890
         /\ pattern[17].dims[1] > 690

\* C9: the Model is lifted by legLength + bodyHeight / 2, which puts the
\* bottom of each of the four legs at height 0; for legLength 4 the lift is 5.5.
C9_FeetOnGround ==
  giraffe # null =>
    LET g == heap[giraffe].group
        structural == g.geometries.mergedGiraffeGeo
    IN  /\ sig.legLength > 0
        /\ g.positionY = sig.legLength + (bodyHeight \div 2)
        /\ sig.legLength = 4000 => g.positionY = 5500
        /\ \A i \in 2..5 :
             /\ structural[i].part = "leg"
             /\ structural[i].dims[3] = sig.legLength
             /\ g.positionY + structural[i].pos[2] - (structural[i].dims[3] \div 2) = 0

C9_Witness ==
  /\ giraffe # null
  /\ sig.legLength = 6000
  /\ heap[giraffe].group.positionY = 7500
  /\ heap[giraffe].group.geometries.mergedGiraffeGeo[2].pos[2] = -4500

GeometricHandlers ==
  {"onNeckLengthChange", "onLegLengthChange", "onHornLengthChange", "onHeadSizeChange",
   "onGiraffeColorChange", "onSpotColorChange"}

\* C10: a run of onGiraffeNameChange or onAutoRotateChange neither disposes
\* nor replaces the Model; a Model is created only by ngAfterViewInit or by a
\* handler of the six parameters that changes the value, the view being
\* initialized, and such a run does create one; and an uninitialized view has
\* no Model.
C10_OnlyParametersRegenerate ==
  [][/\ (Ran("onGiraffeNameChange") \/ Ran("onAutoRotateChange")) =>
          /\ giraffe' = giraffe
          /\ heap' = heap
          /\ scene' = scene
          /\ created' = created
          /\ disposals' = disposals
     /\ (created' # created \/ giraffe' # giraffe \/ disposals' # disposals) =>
          \/ Ran("ngAfterViewInit")
          \/ Ran("ngOnDestroy")
          \/ /\ lastOp'.op \in GeometricHandlers
             /\ lastOp'.x # lastOp'.y
             /\ sig.isViewInitialized
     /\ (lastOp'.op \in GeometricHandlers /\ nEvents' = nEvents + 1
           /\ lastOp'.x # lastOp'.y /\ sig.isViewInitialized) =>
          /\ created' = created + 1
          /\ giraffe' = created'
     /\ ~sig.isViewInitialized => (giraffe = null /\ created = 0)
     /\ ~sig'.isViewInitialized => (giraffe' = null /\ created' = 0)]_vars

C10_Witness ==
  /\ lastOp.op = "onGiraffeNameChange"
  /\ lastOp.x # lastOp.y
  /\ sig.isViewInitialized
  /\ giraffe # null
  /\ giraffe = created
  /\ disposals = created - 1

====
